---- MODULE Spec2Model ----
(***************************************************************************)
(* Model of src/extract_gpuinfo_intel.c (nvtop, Intel i915 backend):       *)
(* the fdinfo parser parse_drm_fdinfo_intel with its double-buffered       *)
(* per-client counter cache, and the end-of-cycle swap.                    *)
(*                                                                         *)
(* Strings are sequences of one-character strings, so that strtoul,        *)
(* strtoull and strcmp act on the characters as the C library does.        *)
(* Numbers stay far below 2^31 in every input set, so none of the uint64_t *)
(* or unsigned computations of the code wraps within the bounds; a '-'     *)
(* sign (which strtoul would negate modulo 2^64) is not in the alphabet.   *)
(***************************************************************************)
EXTENDS Integers, Sequences, FiniteSets, TLC

VARIABLES
  last_update_process_cache,     \* gpu_info->last_update_process_cache: entries in insertion order
  current_update_process_cache,  \* gpu_info->current_update_process_cache
  heap,                          \* the calloc'ed struct intel_process_info_cache objects, by address
  now,                           \* the monotonic clock read by nvtop_get_current_time
  NDEBUG,                        \* whether the build defines NDEBUG (assert compiled out)
  proc,                          \* "running", or how the process died: "aborted" (assert), "trapped" (SIGFPE),
                                 \* "crashed" (wild or dangling pointer)
  op,                            \* the last operation that ran: "init", "parse", "swap"
  fdinfo_file,                   \* the lines of the stream handed to the last parser call
  process_info,                  \* the caller's struct gpu_process after the last parser call
  ret,                           \* the value the last parser call returned
  local,                         \* locals of the last parser call (cid, cache_entry, time_elapsed, ...)
  calls,                         \* parser calls made so far
  stored,                        \* per entry, the samples and the time of the call that stored it last
  intel_gpu_count,               \* unsigned intel_gpu_count
  gpu_infos,                     \* the array gpu_infos: per slot, card_device and card_parent
  udev_device,                   \* the struct udev_device objects: reference count, references
                                 \* taken by add_intel_cards, releases made by shutdown
  dynamic_info,                  \* gpu_infos[0].base.dynamic_info
  sysattr,                       \* the sensor attributes the last refresh read
  device_calls                   \* get_device_handles and shutdown calls made so far

cache_vars == <<last_update_process_cache, current_update_process_cache, heap, now, NDEBUG,
                fdinfo_file, process_info, ret, local, calls, stored>>

device_vars == <<intel_gpu_count, gpu_infos, udev_device, dynamic_info, sysattr, device_calls>>

vars == <<last_update_process_cache, current_update_process_cache, heap, now, NDEBUG,
          proc, op, fdinfo_file, process_info, ret, local, calls, stored,
          intel_gpu_count, gpu_infos, udev_device, dynamic_info, sysattr, device_calls>>

-----------------------------------------------------------------------------
(* Bounds of the model *)

MaxEntries == 2      \* cache entries the heap can hold at once; calloc fails beyond
MaxCalls == 3        \* parser calls the scanner makes in one run
MaxLines == 3        \* longest telemetry record of the line-level specification
MaxScans == 2        \* get_device_handles calls in one run
MaxShutdowns == 2    \* shutdown calls in one run

-----------------------------------------------------------------------------
(* C strings *)

NULL == 0

Digits == {"0", "1", "2", "3", "4", "5", "6", "7", "8", "9"}

DigitVal(c) ==
  CASE c = "0" -> 0 [] c = "1" -> 1 [] c = "2" -> 2 [] c = "3" -> 3 [] c = "4" -> 4
    [] c = "5" -> 5 [] c = "6" -> 6 [] c = "7" -> 7 [] c = "8" -> 8 [] c = "9" -> 9

\* The rest of string s from position i on (a char * into s).
Tail_from(s, i) == SubSeq(s, i, Len(s))

RECURSIVE skip_space(_, _)
skip_space(s, i) == IF i <= Len(s) /\ s[i] = " " THEN skip_space(s, i + 1) ELSE i

RECURSIVE scan_digits(_, _, _)
scan_digits(s, i, acc) ==
  IF i <= Len(s) /\ s[i] \in Digits
    THEN scan_digits(s, i + 1, acc * 10 + DigitVal(s[i]))
    ELSE [value |-> acc, end |-> i]

\* strtoul(val, &endptr, 10) and strtoull(val, &endptr, 10): leading white
\* space, an optional '+', then decimal digits.  With no digit at all the
\* result is 0 and endptr = val.
strtoull(val) ==
  LET i0 == skip_space(val, 1)
      i1 == IF i0 <= Len(val) /\ val[i0] = "+" THEN i0 + 1 ELSE i0
      r  == scan_digits(val, i1, 0)
  IN  IF r.end = i1
        THEN [value |-> 0, endptr |-> val]
        ELSE [value |-> r.value, endptr |-> Tail_from(val, r.end)]

strtoul(val) == strtoull(val)

-----------------------------------------------------------------------------
(* Keys and the device *)

drm_pdev == "drm-pdev"
drm_client_id == "drm-client-id"
drm_intel_render == "drm-engine-render"
drm_intel_copy == "drm-engine-copy"
drm_intel_video == "drm-engine-video"
drm_intel_video_enhance == "drm-engine-video-enhance"

\* gpu_info->pdev, the PCI slot name copied at enumeration.
pdev == <<"0", "0", "0", "0", ":", "0", "0", ":", "0", "2", ".", "0">>

\* A line of the stream is [key, val]; extract_drm_fdinfo_key_value fails on
\* a line that is no "key: value" pair, modelled as an empty key or value.
extract_drm_fdinfo_key_value(line) == line.key # "" /\ line.val # <<>>

-----------------------------------------------------------------------------
(* Optional-field records *)

\* A struct gpu_process as the scanner hands it in: nothing valid yet.
fresh_gpu_process(pid) ==
  [pid |-> pid, gfx_engine_used |-> 0, enc_engine_used |-> 0, dec_engine_used |-> 0,
   gpu_usage |-> 0, encode_usage |-> 0, decode_usage |-> 0, valid |-> {}]

SET_GPUINFO_PROCESS(p, field, value) ==
  [p EXCEPT ![field] = value, !.valid = @ \cup {field}]

GPUINFO_PROCESS_FIELD_VALID(p, field) == field \in p.valid

\* calloc(1, sizeof(struct intel_process_info_cache)): all bytes zero.
zeroed_cache_entry ==
  [client_id |-> [client_id |-> 0, pid |-> 0],
   engine_render |-> 0, engine_copy |-> 0, engine_video |-> 0, engine_video_enhance |-> 0,
   last_measurement_tstamp |-> 0, valid |-> {}]

SET_INTEL_CACHE(e, field, value) ==
  [e EXCEPT ![field] = value, !.valid = @ \cup {field}]

INTEL_CACHE_FIELD_VALID(e, field) == field \in e.valid

RESET_ALL(e) == [e EXCEPT !.valid = {}]

\* A freed (or never allocated) heap cell.
FreeCell == [free |-> TRUE]

Addr == 1..MaxEntries

-----------------------------------------------------------------------------
(* uthash on the client_id field *)

\* HASH_FIND_CLIENT and HASH_ADD_CLIENT give sizeof(unsigned) as the key
\* length: of a struct unique_cache_id {client_id, pid} (packed, client_id
\* first) only the leading unsigned, the client id, is hashed and compared.
hashed_key(ucid) == ucid.client_id

Range(s) == {s[i] : i \in 1..Len(s)}

\* HASH_FIND: the entries of one key share a bucket, HASH_ADD puts an entry
\* at the head of its bucket's chain and HASH_FIND walks the chain from the
\* head, so of several entries with the key the one added last is found.
HASH_FIND_CLIENT(head, key) ==
  LET hits == {i \in 1..Len(head) : hashed_key(heap[head[i]].client_id) = key}
  IN  IF hits = {} THEN NULL ELSE head[CHOOSE i \in hits : \A j \in hits : j <= i]

HASH_DEL(head, entry) == SelectSeq(head, LAMBDA a : a # entry)

\* HASH_ADD does not look for the key: it appends whatever it is given.
HASH_ADD_CLIENT(head, entry) == Append(head, entry)

\* calloc: NULL when the allocator fails, else an unused cell.
calloc(ok) ==
  LET free == {a \in Addr : heap[a] = FreeCell}
  IN  IF ~ok \/ free = {} THEN NULL ELSE CHOOSE a \in free : \A b \in free : a <= b

-----------------------------------------------------------------------------
(* nvtop/time.h and nvtop/extract_gpuinfo_common.h *)

\* Nanoseconds from t0 to t1.
nvtop_difftime_u64(t0, t1) == t1 - t0

Min(a, b) == IF a <= b THEN a ELSE b

\* The busy percentage of a counter that went from previous_use_ns to
\* current_use_ns in time_between_measurement > 0: the quotient scaled to
\* percent, rounded to nearest, clamped to the valid range.
busy_usage_from_time_usage_round(current_use_ns, previous_use_ns, time_between_measurement) ==
  Min(100, ((current_use_ns - previous_use_ns) * 100 + time_between_measurement \div 2)
             \div time_between_measurement)

-----------------------------------------------------------------------------
(* parse_drm_fdinfo_intel: the getline loop *)

\* State of the loop: whether a return false was taken, and the locals.
loop_start(pid) ==
  [returned |-> FALSE, client_id_set |-> FALSE, cid |-> 0,
   process_info |-> fresh_gpu_process(pid)]

\* Mutant: a pdev line of another device is read over.
pdev_line_read_over(st, val) == st

\* Mutant: the mismatch also discards what was read into the usage record.
pdev_line_discarding(st, val) ==
  IF val # pdev
    THEN [st EXCEPT !.returned = TRUE,
                    !.process_info = fresh_gpu_process(st.process_info.pid)]
    ELSE st

\* key == drm_pdev: a value other than this device's pdev returns false.
pdev_line(st, val) ==
  IF val # pdev THEN [st EXCEPT !.returned = TRUE] ELSE st

\* Mutant: the client id counts as set before endptr is looked at.
client_id_line_set_early(st, val) ==
  [st EXCEPT !.cid = strtoul(val).value, !.client_id_set = TRUE]

\* key == drm_client_id: cid is assigned before endptr is looked at.
client_id_line(st, val) ==
  LET r == strtoul(val)
  IN  IF r.endptr # <<>>
        THEN [st EXCEPT !.cid = r.value]
        ELSE [st EXCEPT !.cid = r.value, !.client_id_set = TRUE]

ns_suffix == <<" ", "n", "s">>

\* Mutant: a malformed engine value fails the record.
engine_line_fatal(st, key, val) ==
  LET r == strtoull(val)
  IN  IF key \notin {drm_intel_render, drm_intel_copy, drm_intel_video, drm_intel_video_enhance}
        THEN st
      ELSE IF r.endptr = val \/ r.endptr # ns_suffix THEN [st EXCEPT !.returned = TRUE]
      ELSE IF key = drm_intel_render
        THEN [st EXCEPT !.process_info = SET_GPUINFO_PROCESS(@, "gfx_engine_used", r.value)]
      ELSE IF key = drm_intel_video
        THEN [st EXCEPT !.process_info = SET_GPUINFO_PROCESS(@, "enc_engine_used", r.value)]
      ELSE IF key = drm_intel_video_enhance
        THEN [st EXCEPT !.process_info = SET_GPUINFO_PROCESS(@, "dec_engine_used", r.value)]
      ELSE st

\* Any other key: the four engine keys carry "<integer> ns".
engine_line(st, key, val) ==
  LET is_render == key = drm_intel_render
      is_copy == key = drm_intel_copy
      is_video == key = drm_intel_video
      is_video_enhance == key = drm_intel_video_enhance
      r == strtoull(val)
      time_spent == r.value
  IN  IF ~(is_render \/ is_copy \/ is_video \/ is_video_enhance) THEN st
      ELSE IF r.endptr = val \/ r.endptr # ns_suffix THEN st
      ELSE IF is_render
        THEN [st EXCEPT !.process_info = SET_GPUINFO_PROCESS(@, "gfx_engine_used", time_spent)]
      ELSE IF is_video
        THEN [st EXCEPT !.process_info = SET_GPUINFO_PROCESS(@, "enc_engine_used", time_spent)]
      ELSE IF is_video_enhance
        THEN [st EXCEPT !.process_info = SET_GPUINFO_PROCESS(@, "dec_engine_used", time_spent)]
      ELSE st

one_line(st, line) ==
  IF ~extract_drm_fdinfo_key_value(line) THEN st
  ELSE IF line.key = drm_pdev THEN pdev_line(st, line.val)
  ELSE IF line.key = drm_client_id THEN client_id_line(st, line.val)
  ELSE engine_line(st, line.key, line.val)

\* Mutant: a record without a drm-pdev line is rejected at the end of the
\* stream.
RECURSIVE read_lines_pdev_required(_, _, _)
read_lines_pdev_required(file, i, st) ==
  IF st.returned THEN st
  ELSE IF i > Len(file)
    THEN IF \E j \in 1..Len(file) : file[j].key = drm_pdev
           THEN st ELSE [st EXCEPT !.returned = TRUE]
  ELSE read_lines_pdev_required(file, i + 1, one_line(st, file[i]))

\* while (getline(...) != -1): stops at the end of the stream or at the
\* first return.
RECURSIVE read_lines(_, _, _)
read_lines(file, i, st) ==
  IF i > Len(file) \/ st.returned THEN st
  ELSE read_lines(file, i + 1, one_line(st, file[i]))

-----------------------------------------------------------------------------
(* parse_drm_fdinfo_intel: the counter cache *)

\* Mutant: the guard does not compare the delta with the elapsed time.
usage_guard_unbounded(p, cache_entry, sample, cached, time_elapsed) ==
  /\ GPUINFO_PROCESS_FIELD_VALID(p, sample)
  /\ INTEL_CACHE_FIELD_VALID(cache_entry, cached)
  /\ p[sample] >= cache_entry[cached]

\* The condition of each of the three if-blocks that derive a percentage:
\* both samples valid, no regression, delta within the elapsed time.
usage_guard(p, cache_entry, sample, cached, time_elapsed) ==
  /\ GPUINFO_PROCESS_FIELD_VALID(p, sample)
  /\ INTEL_CACHE_FIELD_VALID(cache_entry, cached)
  /\ p[sample] >= cache_entry[cached]
  /\ p[sample] - cache_entry[cached] <= time_elapsed

\* Mutant: the percentage is the delta itself, not divided by the time.
derive_usage_raw_delta(p, cache_entry, sample, cached, usage, time_elapsed) ==
  IF usage_guard(p, cache_entry, sample, cached, time_elapsed)
    THEN SET_GPUINFO_PROCESS(p, usage, p[sample] - cache_entry[cached])
    ELSE p

\* One if-block.  With time_elapsed = 0 the division is by zero: a build
\* that does not trap there yields 0.
derive_usage(p, cache_entry, sample, cached, usage, time_elapsed) ==
  IF usage_guard(p, cache_entry, sample, cached, time_elapsed)
    THEN SET_GPUINFO_PROCESS(p, usage,
           IF time_elapsed = 0 THEN 0
           ELSE busy_usage_from_time_usage_round(p[sample], cache_entry[cached], time_elapsed))
    ELSE p

\* The three if-blocks, in the order of the code.
derive_all(p, cache_entry, time_elapsed) ==
  LET p1 == derive_usage(p, cache_entry, "gfx_engine_used", "engine_render", "gpu_usage",
                         time_elapsed)
      p2 == derive_usage(p1, cache_entry, "dec_engine_used", "engine_video", "decode_usage",
                         time_elapsed)
  IN  derive_usage(p2, cache_entry, "enc_engine_used", "engine_video_enhance", "encode_usage",
                   time_elapsed)

\* Whether one of the three divisions divides by zero.
divides_by_zero(p, cache_entry, time_elapsed) ==
  /\ time_elapsed = 0
  /\ \/ usage_guard(p, cache_entry, "gfx_engine_used", "engine_render", time_elapsed)
     \/ usage_guard(p, cache_entry, "dec_engine_used", "engine_video", time_elapsed)
     \/ usage_guard(p, cache_entry, "enc_engine_used", "engine_video_enhance", time_elapsed)

\* Mutant: the decode and encode times are stored into each other's counter.
store_sample_crossed(cache_entry, p, current_time) ==
  LET e0 == RESET_ALL(cache_entry)
      e1 == IF GPUINFO_PROCESS_FIELD_VALID(p, "gfx_engine_used")
              THEN SET_INTEL_CACHE(e0, "engine_render", p.gfx_engine_used) ELSE e0
      e2 == IF GPUINFO_PROCESS_FIELD_VALID(p, "dec_engine_used")
              THEN SET_INTEL_CACHE(e1, "engine_video_enhance", p.dec_engine_used) ELSE e1
      e3 == IF GPUINFO_PROCESS_FIELD_VALID(p, "enc_engine_used")
              THEN SET_INTEL_CACHE(e2, "engine_video", p.enc_engine_used) ELSE e2
  IN  [e3 EXCEPT !.last_measurement_tstamp = current_time]

\* Mutant: the valid bits of the entry are not reset before the stores.
store_sample_without_reset(cache_entry, p, current_time) ==
  LET e1 == IF GPUINFO_PROCESS_FIELD_VALID(p, "gfx_engine_used")
              THEN SET_INTEL_CACHE(cache_entry, "engine_render", p.gfx_engine_used)
              ELSE cache_entry
      e2 == IF GPUINFO_PROCESS_FIELD_VALID(p, "dec_engine_used")
              THEN SET_INTEL_CACHE(e1, "engine_video", p.dec_engine_used) ELSE e1
      e3 == IF GPUINFO_PROCESS_FIELD_VALID(p, "enc_engine_used")
              THEN SET_INTEL_CACHE(e2, "engine_video_enhance", p.enc_engine_used) ELSE e2
  IN  [e3 EXCEPT !.last_measurement_tstamp = current_time]

\* RESET_ALL, the three SET_INTEL_CACHE and the time stamp.
store_sample(cache_entry, p, current_time) ==
  LET e0 == RESET_ALL(cache_entry)
      e1 == IF GPUINFO_PROCESS_FIELD_VALID(p, "gfx_engine_used")
              THEN SET_INTEL_CACHE(e0, "engine_render", p.gfx_engine_used) ELSE e0
      e2 == IF GPUINFO_PROCESS_FIELD_VALID(p, "dec_engine_used")
              THEN SET_INTEL_CACHE(e1, "engine_video", p.dec_engine_used) ELSE e1
      e3 == IF GPUINFO_PROCESS_FIELD_VALID(p, "enc_engine_used")
              THEN SET_INTEL_CACHE(e2, "engine_video_enhance", p.enc_engine_used) ELSE e2
  IN  [e3 EXCEPT !.last_measurement_tstamp = current_time]

\* The assert of the debug build: the client id is not yet in the current
\* buffer.  A build with NDEBUG has no such check.
assert_fails(cid) ==
  ~NDEBUG /\ HASH_FIND_CLIENT(current_update_process_cache, cid) # NULL

\* What `stored` keeps of the call that stored an entry: the record as the
\* loop left it (the engine times read from the stream), the clock and the
\* client id the call read, and the swaps the entry has seen since.
no_sample == [p |-> fresh_gpu_process(0), at |-> 0, cid |-> 0, age |-> 0]

sample_of(st, current_time) ==
  [p |-> st.process_info, at |-> current_time, cid |-> st.cid, age |-> 0]

no_locals ==
  [client_id_set |-> FALSE, cid |-> 0, cache_entry |-> NULL, found |-> zeroed_cache_entry,
   previous |-> no_sample, time_elapsed |-> 0, calloc_failed |-> FALSE, added |-> NULL,
   freed |-> {}]

\* The process dies inside the call: nothing is returned to the caller.
dies(how, file) ==
  /\ proc' = how
  /\ op' = "parse"
  /\ fdinfo_file' = file
  /\ ret' = FALSE
  /\ process_info' = fresh_gpu_process(0)
  /\ local' = no_locals
  /\ UNCHANGED <<last_update_process_cache, current_update_process_cache, heap, stored>>

\* The call returns `result` with the caller's record as `p`, the cache as
\* given.
returns(file, result, p, locals) ==
  /\ ret' = result
  /\ process_info' = p
  /\ local' = locals
  /\ op' = "parse"
  /\ fdinfo_file' = file
  /\ UNCHANGED proc

\* Mutant: the entry found is stored and added to the current buffer while
\* it stays in the previous one.
cache_hit_without_del(file, st, hit, current_time, locals) ==
  LET time_elapsed == nvtop_difftime_u64(heap[hit].last_measurement_tstamp, current_time)
      p == derive_all(st.process_info, heap[hit], time_elapsed)
  IN  /\ UNCHANGED last_update_process_cache
      /\ heap' = [heap EXCEPT ![hit] = store_sample(heap[hit], p, current_time)]
      /\ current_update_process_cache' = HASH_ADD_CLIENT(current_update_process_cache, hit)
      /\ stored' = [stored EXCEPT ![hit] = sample_of(st, current_time)]
      /\ returns(file, TRUE, p, [locals EXCEPT !.time_elapsed = time_elapsed, !.added = hit])

\* Lines 186-213 and 222-238: the client id is in the previous buffer.
cache_hit(file, st, hit, current_time, locals) ==
  LET time_elapsed == nvtop_difftime_u64(heap[hit].last_measurement_tstamp, current_time)
      p == derive_all(st.process_info, heap[hit], time_elapsed)
  IN  \/ /\ divides_by_zero(st.process_info, heap[hit], time_elapsed)
         /\ dies("trapped", file)
      \/ /\ assert_fails(st.cid)
         /\ dies("aborted", file)
      \/ /\ ~assert_fails(st.cid)
         /\ last_update_process_cache' = HASH_DEL(last_update_process_cache, hit)
         /\ heap' = [heap EXCEPT ![hit] = store_sample(heap[hit], p, current_time)]
         /\ current_update_process_cache' = HASH_ADD_CLIENT(current_update_process_cache, hit)
         /\ stored' = [stored EXCEPT ![hit] = sample_of(st, current_time)]
         /\ returns(file, TRUE, p, [locals EXCEPT !.time_elapsed = time_elapsed, !.added = hit])

\* Mutant: a failed allocation fails the call and drops what was parsed.
cache_miss_alloc_fatal(file, st, ucid, current_time, locals) ==
  /\ calloc(FALSE) = NULL
  /\ returns(file, FALSE, fresh_gpu_process(st.process_info.pid),
             [locals EXCEPT !.calloc_failed = TRUE])
  /\ UNCHANGED <<last_update_process_cache, current_update_process_cache, heap, stored>>

\* Lines 214-220 and 222-238: the client id is not in the previous buffer.
cache_miss(file, st, ucid, current_time, locals) ==
  \E calloc_ok \in BOOLEAN :
    LET cache_entry == calloc(calloc_ok)
        created == [zeroed_cache_entry EXCEPT !.client_id = ucid]
    IN  IF cache_entry = NULL
          THEN \* goto parse_fdinfo_exit
               /\ returns(file, TRUE, st.process_info, [locals EXCEPT !.calloc_failed = TRUE])
               /\ UNCHANGED <<last_update_process_cache, current_update_process_cache, heap,
                              stored>>
        ELSE IF assert_fails(st.cid)
          THEN dies("aborted", file)
        ELSE /\ heap' = [heap EXCEPT ![cache_entry] =
                           store_sample(created, st.process_info, current_time)]
             /\ current_update_process_cache' =
                  HASH_ADD_CLIENT(current_update_process_cache, cache_entry)
             /\ stored' = [stored EXCEPT ![cache_entry] = sample_of(st, current_time)]
             /\ returns(file, TRUE, st.process_info, [locals EXCEPT !.added = cache_entry])
             /\ UNCHANGED last_update_process_cache

\* Whether the two cache pointers of the device were NULL when its slot of
\* gpu_infos was allocated.  If not, they are indeterminate: the lookup, or
\* the loop of the swap, follows a wild pointer, modelled as the process
\* being killed there.
caches_initialised == gpu_infos[1].caches_null

\* One call of the parser on the stream `file` for the process `pid`, the
\* clock having advanced by dt since it was last read.
parse_drm_fdinfo_intel(file, pid, dt) ==
  LET current_time == now + dt
      st == read_lines(file, 1, loop_start(pid))
      ucid == [client_id |-> st.cid, pid |-> pid]
      hit == HASH_FIND_CLIENT(last_update_process_cache, hashed_key(ucid))
      locals == [no_locals EXCEPT !.client_id_set = st.client_id_set, !.cid = st.cid]
      looked_up == [locals EXCEPT !.cache_entry = hit, !.found = heap[hit],
                                  !.previous = stored[hit]]
  IN
  /\ proc = "running"
  /\ now' = current_time
  /\ calls' = calls + 1
  /\ UNCHANGED <<NDEBUG, device_vars>>
  /\ IF st.returned \/ ~st.client_id_set
       THEN \* return false, from the loop or after it
            /\ returns(file, FALSE, st.process_info, locals)
            /\ UNCHANGED <<last_update_process_cache, current_update_process_cache, heap,
                           stored>>
     ELSE IF ~caches_initialised
       THEN dies("crashed", file)
     ELSE IF hit # NULL
       THEN cache_hit(file, st, hit, current_time, looked_up)
       ELSE cache_miss(file, st, ucid, current_time, locals)

-----------------------------------------------------------------------------
(* The end of a polling cycle *)

\* Mutant: the swap keeps the unconsumed entries in the previous buffer.
swap_keeps_unconsumed ==
  /\ heap' = heap
  /\ last_update_process_cache' = current_update_process_cache \o last_update_process_cache
  /\ current_update_process_cache' = <<>>

\* Mutant: the swap leaves the current buffer as it is.
swap_without_reset ==
  /\ heap' = [a \in Addr |->
                IF a \in Range(last_update_process_cache) THEN FreeCell ELSE heap[a]]
  /\ last_update_process_cache' = current_update_process_cache
  /\ current_update_process_cache' = current_update_process_cache

\* Frees what is left of the previous buffer; the current buffer becomes the
\* previous one and the current one is empty.
swap_process_cache_for_next_update ==
  /\ heap' = [a \in Addr |->
                IF a \in Range(last_update_process_cache) THEN FreeCell ELSE heap[a]]
  /\ last_update_process_cache' = current_update_process_cache
  /\ current_update_process_cache' = <<>>

gpuinfo_intel_get_running_processes ==
  /\ proc = "running"
  /\ IF caches_initialised
       THEN /\ swap_process_cache_for_next_update
            /\ stored' = [a \in Addr |-> IF heap'[a] = FreeCell THEN no_sample
                                          ELSE [stored[a] EXCEPT !.age = @ + 1]]
            /\ local' = [no_locals EXCEPT !.freed = Range(last_update_process_cache)]
            /\ UNCHANGED proc
       ELSE /\ proc' = "crashed"
            /\ local' = no_locals
            /\ UNCHANGED <<last_update_process_cache, current_update_process_cache, heap,
                           stored>>
  /\ op' = "swap"
  /\ fdinfo_file' = <<>>
  /\ ret' = FALSE
  /\ process_info' = fresh_gpu_process(0)
  /\ UNCHANGED <<now, NDEBUG, calls, device_vars>>

-----------------------------------------------------------------------------
(* libudev objects, the device array, enumeration and shutdown *)

VENDOR_INTEL_STR == "0x8086"

dev_dri == <<"/", "d", "e", "v", "/", "d", "r", "i", "/">>

dev_dri_card == dev_dri \o <<"c", "a", "r", "d">>

\* The drm devices udev_enumerate lists: the device node of each and, of
\* its parent, the vendor attribute, the driver and the enable attribute.
\* The integrated GPU with its render node, and a card of another vendor.
drm_devices ==
  <<[devnode |-> dev_dri_card \o <<"0">>,
     vendor |-> "0x8086", driver |-> "i915", enable |-> "1"],
    [devnode |-> dev_dri \o <<"r", "e", "n", "d", "e", "r", "D", "1", "2", "8">>,
     vendor |-> "0x8086", driver |-> "i915", enable |-> "1"],
    [devnode |-> dev_dri_card \o <<"1">>,
     vendor |-> "0x10de", driver |-> "nouveau", enable |-> "1"]>>

strstr(haystack, needle) ==
  \E i \in 1..(Len(haystack) - Len(needle) + 1) :
    SubSeq(haystack, i, i + Len(needle) - 1) = needle

\* The struct udev_device objects: udev_device_new_from_syspath makes a new
\* one for the j-th listed device in each scan, udev_device_get_parent one
\* for its parent, which the child holds.
Handle == 1..(2 * MaxScans * Len(drm_devices))

new_from_syspath(scan, j) == 2 * ((scan - 1) * Len(drm_devices) + (j - 1)) + 1

udev_device_get_parent(dev) == dev + 1

\* Per object: its reference count (0: not there, or freed), the references
\* add_intel_cards took on it, the releases gpuinfo_intel_shutdown made.
no_object == [refcount |-> 0, acquired |-> 0, released |-> 0]

udev_device_ref(objs, h) == [objs EXCEPT ![h].refcount = @ + 1]

\* Dropping the last reference frees the object; a device that is freed
\* drops the reference it holds on its parent.  On a freed object (a use
\* after free) the count stays as it is.
udev_device_unref(objs, h) ==
  IF objs[h].refcount = 0 THEN objs
  ELSE IF objs[h].refcount > 1 THEN [objs EXCEPT ![h].refcount = @ - 1]
  ELSE LET parent == udev_device_get_parent(h)
       IN  IF h % 2 = 1 /\ objs[parent].refcount > 0
             THEN [objs EXCEPT ![h].refcount = 0, ![parent].refcount = @ - 1]
             ELSE [objs EXCEPT ![h].refcount = 0]

\* A slot of gpu_infos that add_intel_cards has not written.  Nothing in
\* the file ever initialises the two cache pointers of a slot: they are
\* NULL only if the memory reallocarray handed out happened to be zero.
empty_slot(zeroed) == [card_device |-> NULL, card_parent |-> NULL, caches_null |-> zeroed]

\* reallocarray(gpu_infos, num_devices, sizeof(*gpu_infos)): the old slots
\* as far as they fit, the others not initialised.
reallocarray(infos, num_devices, zeroed) ==
  [i \in 1..num_devices |-> IF i <= Len(infos) THEN infos[i] ELSE empty_slot(zeroed)]

\* gpu_infos[index].card_device and .card_parent are set, index counted from
\* 0; past the end of the array the write lands in the memory that follows.
write_slot(infos, index, device, parent) ==
  [i \in 1..(IF index + 1 > Len(infos) THEN index + 1 ELSE Len(infos)) |->
     LET old == IF i <= Len(infos) THEN infos[i] ELSE empty_slot(FALSE)
     IN  IF i = index + 1 THEN [old EXCEPT !.card_device = device, !.card_parent = parent]
         ELSE old]

\* add_intel_cards: an enabled Intel card on the i915 driver takes the next
\* slot of gpu_infos, with a reference on the device and one on its parent.
add_intel_cards(st, d, dev) ==
  LET parent == udev_device_get_parent(dev)
      made == [st.udev_device EXCEPT ![parent].refcount = 1]
      held == udev_device_ref(udev_device_ref(made, dev), parent)
  IN  IF d.vendor = VENDOR_INTEL_STR /\ d.driver = "i915" /\ d.enable = "1"
        THEN [st EXCEPT
                !.overflow = @ \/ st.intel_gpu_count >= Len(st.gpu_infos),
                !.gpu_infos = write_slot(@, st.intel_gpu_count, dev, parent),
                !.intel_gpu_count = @ + 1,
                !.udev_device = [held EXCEPT ![dev].acquired = @ + 1,
                                             ![parent].acquired = @ + 1],
                !.count = @ + 1]
        ELSE [st EXCEPT !.udev_device = made]

\* The second udev_list_entry_foreach of gpuinfo_intel_get_device_handles,
\* from the j-th entry on.
RECURSIVE foreach_device(_, _, _)
foreach_device(st, scan, j) ==
  IF j > Len(drm_devices) THEN st
  ELSE LET udev_dev == new_from_syspath(scan, j)
           opened == [st EXCEPT !.udev_device[udev_dev].refcount = 1]
           added == IF strstr(drm_devices[j].devnode, dev_dri_card)
                      THEN add_intel_cards(opened, drm_devices[j], udev_dev)
                      ELSE opened
       IN  foreach_device([added EXCEPT
                             !.udev_device = udev_device_unref(@, udev_dev)],
                          scan, j + 1)

\* gpuinfo_intel_get_device_handles on the device state st, as the scan-th
\* enumeration: *count = 0, the array resized to the number of listed
\* devices, then the loop.  intel_gpu_count is not reset.
get_device_handles(st, scan, realloc_ok, zeroed) ==
  LET num_devices == Len(drm_devices)
      start == [st EXCEPT !.count = 0, !.overflow = FALSE]
  IN  IF num_devices = 0 THEN [start EXCEPT !.result = FALSE]
      ELSE IF ~realloc_ok THEN [start EXCEPT !.gpu_infos = <<>>, !.result = FALSE]
      ELSE foreach_device([start EXCEPT !.gpu_infos = reallocarray(@, num_devices, zeroed),
                                        !.result = TRUE],
                          scan, 1)

\* The device state before any enumeration.
not_enumerated ==
  [intel_gpu_count |-> 0, gpu_infos |-> <<>>, udev_device |-> [h \in Handle |-> no_object],
   count |-> 0, result |-> FALSE, overflow |-> FALSE]

device_state ==
  [intel_gpu_count |-> intel_gpu_count, gpu_infos |-> gpu_infos, udev_device |-> udev_device,
   count |-> 0, result |-> FALSE, overflow |-> FALSE]

no_device_calls == [scans |-> 0, shutdowns |-> 0, count |-> 0, result |-> FALSE]

\* A write past the end of gpu_infos or an unref of a freed object is
\* undefined: the process goes on, or it is killed.
undefined_behaviour == proc' \in {"running", "crashed"}

gpuinfo_intel_get_device_handles ==
  \E realloc_ok \in BOOLEAN, zeroed \in BOOLEAN :
    LET st == get_device_handles(device_state, device_calls.scans + 1, realloc_ok, zeroed)
    IN  /\ proc = "running"
        /\ intel_gpu_count' = st.intel_gpu_count
        /\ gpu_infos' = st.gpu_infos
        /\ udev_device' = st.udev_device
        /\ device_calls' = [device_calls EXCEPT !.scans = @ + 1, !.count = st.count,
                                                !.result = st.result]
        /\ IF st.overflow THEN undefined_behaviour ELSE UNCHANGED proc
        /\ op' = "get_device_handles"
        /\ UNCHANGED <<cache_vars, dynamic_info, sysattr>>

\* The loop of gpuinfo_intel_shutdown over the slots i..n: unref of
\* card_device, then of card_parent.
RECURSIVE release_slots(_, _, _, _)
release_slots(st, infos, i, n) ==
  IF i > n THEN st
  ELSE LET device == infos[i].card_device
           parent == infos[i].card_parent
           o1 == udev_device_unref([st.udev_device EXCEPT ![device].released = @ + 1], device)
           o2 == udev_device_unref([o1 EXCEPT ![parent].released = @ + 1], parent)
       IN  release_slots([udev_device |-> o2,
                          use_after_free |-> \/ st.use_after_free
                                             \/ st.udev_device[device].refcount = 0
                                             \/ o1[parent].refcount = 0],
                         infos, i + 1, n)

\* gpuinfo_intel_shutdown.  With gpu_infos NULL after a failed reallocarray
\* and intel_gpu_count not 0 the first slot read is a null dereference.
gpuinfo_intel_shutdown ==
  /\ proc = "running"
  /\ device_calls' = [device_calls EXCEPT !.shutdowns = @ + 1]
  /\ IF intel_gpu_count > Len(gpu_infos)
       THEN /\ proc' = "crashed"
            /\ UNCHANGED udev_device
       ELSE LET st == release_slots([udev_device |-> udev_device, use_after_free |-> FALSE],
                                    gpu_infos, 1, intel_gpu_count)
            IN  /\ udev_device' = st.udev_device
                /\ IF st.use_after_free THEN undefined_behaviour ELSE UNCHANGED proc
  /\ op' = "shutdown"
  /\ UNCHANGED <<cache_vars, intel_gpu_count, gpu_infos, dynamic_info, sysattr>>

-----------------------------------------------------------------------------
(* gpuinfo_intel_refresh_dynamic_info *)

\* struct gpuinfo_dynamic_info, of which the clocks: nothing valid yet.
no_dynamic_info ==
  [gpu_clock_speed |-> 0, gpu_clock_speed_max |-> 0, mem_clock_speed |-> 0,
   mem_clock_speed_max |-> 0, valid |-> {}]

SET_GPUINFO_DYNAMIC(d, field, value) ==
  [d EXCEPT ![field] = value, !.valid = @ \cup {field}]

\* What udev_device_get_sysattr_value returns: NULL, or the value's string.
no_attribute == [null |-> TRUE, str |-> <<>>]

attribute(str) == [null |-> FALSE, str |-> str]

udev_device_get_sysattr_value(attrs, name) == attrs[name]

\* if (attr) { unsigned val = strtoul(attr, NULL, 10); SET_GPUINFO_DYNAMIC(...); }
read_clock(d, attr, field) ==
  IF ~attr.null THEN SET_GPUINFO_DYNAMIC(d, field, strtoul(attr.str).value) ELSE d

\* The four blocks in the order of the code: each of them sets
\* gpu_clock_speed.
refresh_dynamic_info(d, attrs) ==
  LET gt_cur_freq == udev_device_get_sysattr_value(attrs, "gt_gt_cur_freq_mhz")
      gt_max_freq == udev_device_get_sysattr_value(attrs, "gt_max_freq_mhz")
      mem_cur_freq == udev_device_get_sysattr_value(attrs, "mem_cur_freq_mhz")
      mem_max_freq == udev_device_get_sysattr_value(attrs, "mem_max_freq_mhz")
      d1 == read_clock(d, gt_cur_freq, "gpu_clock_speed")
      d2 == read_clock(d1, gt_max_freq, "gpu_clock_speed")
      d3 == read_clock(d2, mem_cur_freq, "gpu_clock_speed")
  IN  read_clock(d3, mem_max_freq, "gpu_clock_speed")

\* One refresh of the first device, its sensor attributes reading attrs.
gpuinfo_intel_refresh_dynamic_info(attrs) ==
  /\ proc = "running"
  /\ intel_gpu_count >= 1
  /\ Len(gpu_infos) >= 1
  /\ udev_device[gpu_infos[1].card_device].refcount > 0
  /\ dynamic_info' = refresh_dynamic_info(dynamic_info, attrs)
  /\ sysattr' = attrs
  /\ op' = "refresh"
  /\ UNCHANGED <<cache_vars, proc, intel_gpu_count, gpu_infos, udev_device, device_calls>>

-----------------------------------------------------------------------------
(* The program *)

\* The sensor attributes by name.
SensorNames == {"gt_gt_cur_freq_mhz", "gt_max_freq_mhz", "mem_cur_freq_mhz", "mem_max_freq_mhz"}

\* The state of the caches and of the scanner when the program starts.
InitCache ==
  /\ last_update_process_cache = <<>>
  /\ current_update_process_cache = <<>>
  /\ heap = [a \in Addr |-> FreeCell]
  /\ now = 0
  /\ NDEBUG \in BOOLEAN
  /\ proc = "running"
  /\ op = "init"
  /\ fdinfo_file = <<>>
  /\ ret = FALSE
  /\ process_info = fresh_gpu_process(0)
  /\ local = no_locals
  /\ calls = 0
  /\ stored = [a \in Addr |-> no_sample]
  /\ dynamic_info = no_dynamic_info
  /\ sysattr = [n \in SensorNames |-> no_attribute]

\* The first enumeration, which registers the parser for the device.
enumerated(zeroed) == get_device_handles(not_enumerated, 1, TRUE, zeroed)

\* The polling cycles start once the devices are enumerated.
Init ==
  /\ InitCache
  /\ \E zeroed \in BOOLEAN :
       /\ intel_gpu_count = enumerated(zeroed).intel_gpu_count
       /\ gpu_infos = enumerated(zeroed).gpu_infos
       /\ udev_device = enumerated(zeroed).udev_device
       /\ device_calls = [no_device_calls EXCEPT !.scans = 1,
                                                !.count = enumerated(zeroed).count,
                                                !.result = enumerated(zeroed).result]

\* What the scanner hands to the parser.
line(key, val) == [key |-> key, val |-> val]

Pids == {1, 2}

\* Clock advances between two reads of the clock.
Dts == {0, 1}

pdev_ok == line(drm_pdev, pdev)

client(c) == line(drm_client_id, c)

ns(digits) == digits \o <<" ", "n", "s">>

\* Records of the cache-level specification: two clients; render samples 1
\* and 2, video-enhance samples 1 and 3 (so that a counter stays, advances by
\* the elapsed time, by more, or regresses); a class missing; no client id.
Records ==
  {<<pdev_ok, client(<<"1">>), line(drm_intel_render, ns(<<"1">>)),
     line(drm_intel_video_enhance, ns(<<"1">>))>>,
   <<pdev_ok, client(<<"1">>), line(drm_intel_render, ns(<<"2">>)),
     line(drm_intel_video_enhance, ns(<<"3">>))>>,
   <<pdev_ok, client(<<"1">>), line(drm_intel_render, ns(<<"1">>)),
     line(drm_intel_video_enhance, ns(<<"3">>))>>,
   <<pdev_ok, client(<<"1">>), line(drm_intel_render, ns(<<"1">>))>>,
   <<pdev_ok, client(<<"2">>), line(drm_intel_render, ns(<<"1">>))>>,
   <<pdev_ok, line(drm_intel_render, ns(<<"1">>))>>}

Parse ==
  /\ calls < MaxCalls
  /\ \E file \in Records, pid \in Pids, dt \in Dts :
       parse_drm_fdinfo_intel(file, pid, dt)

Swap == gpuinfo_intel_get_running_processes

Next == Parse \/ Swap

Spec == Init /\ [][Next]_vars

\* The line-level specification: the scanner makes one call with a record
\* of Records and then one call with any record of at most MaxLines lines
\* out of Lines; swaps as they come.
pdev_other == line(drm_pdev, <<"0", "0", "0", "0", ":", "0", "1", ":", "0", "0", ".", "0">>)

not_key_value == line("", <<>>)

Lines ==
  {pdev_ok, pdev_other, not_key_value,
   client(<<"1">>), client(<<"2", "x">>),
   line(drm_intel_render, ns(<<"1">>)),
   line(drm_intel_render, <<"1", " ", "u", "s">>),
   line(drm_intel_render, <<"x", " ", "n", "s">>),
   line(drm_intel_copy, ns(<<"1">>)),
   line(drm_intel_video, ns(<<"2">>)),
   line(drm_intel_video_enhance, ns(<<"3">>))}

AnyRecords == UNION {[1..n -> Lines] : n \in 0..MaxLines}

FirstCall ==
  /\ calls = 0
  /\ \E file \in Records, dt \in Dts :
       parse_drm_fdinfo_intel(file, 1, dt)

AnyCall ==
  /\ calls = 1
  /\ \E file \in AnyRecords, dt \in Dts :
       parse_drm_fdinfo_intel(file, 1, dt)

NextLines == FirstCall \/ AnyCall \/ Swap

SpecLines == Init /\ [][NextLines]_vars

\* The end-to-end scenario of client 7: render counters of 1,000,000 ns and
\* 1,050,000 ns, calls 500 ms apart.
HalfSecond == 500000000

ScenarioRecords ==
  {<<pdev_ok, client(<<"7">>),
     line(drm_intel_render, ns(<<"1", "0", "0", "0", "0", "0", "0">>))>>,
   <<pdev_ok, client(<<"7">>),
     line(drm_intel_render, ns(<<"1", "0", "5", "0", "0", "0", "0">>))>>,
   <<pdev_other, client(<<"7">>),
     line(drm_intel_render, ns(<<"1", "0", "0", "0", "0", "0", "0">>))>>,
   <<pdev_ok, line(drm_intel_render, ns(<<"1", "0", "0", "0", "0", "0", "0">>))>>}

ScenarioCall ==
  /\ calls < MaxCalls
  /\ \E file \in ScenarioRecords, pid \in Pids, dt \in {0, HalfSecond} :
       parse_drm_fdinfo_intel(file, pid, dt)

NextScenario == ScenarioCall \/ Swap

SpecScenario == Init /\ [][NextScenario]_vars

\* The device-level specification: from program start, enumerations,
\* refreshes of the first device and shutdowns, in any order.
InitDevice ==
  /\ InitCache
  /\ intel_gpu_count = not_enumerated.intel_gpu_count
  /\ gpu_infos = not_enumerated.gpu_infos
  /\ udev_device = not_enumerated.udev_device
  /\ device_calls = no_device_calls

\* Sensor readings in MHz.
Clocks == {attribute(<<"3", "0", "0">>), attribute(<<"1", "1", "0", "0">>)}

GetDeviceHandles ==
  /\ device_calls.scans < MaxScans
  /\ gpuinfo_intel_get_device_handles

Shutdown ==
  /\ device_calls.shutdowns < MaxShutdowns
  /\ gpuinfo_intel_shutdown

RefreshDynamicInfo ==
  \E attrs \in [SensorNames -> Clocks \cup {no_attribute}] :
    gpuinfo_intel_refresh_dynamic_info(attrs)

NextDevice == GetDeviceHandles \/ Shutdown \/ RefreshDynamicInfo

SpecDevice == InitDevice /\ [][NextDevice]_vars


-----------------------------------------------------------------------------
(* Properties *)

client_of(a) == heap[a].client_id.client_id

\* C1: an entry of the previous buffer whose client gets no successful
\* parser call stays in the previous buffer, unchanged, through every call of
\* the cycle, and the swap that ends the cycle frees it; the entries stored
\* in a cycle enter the previous buffer at the swap that ends that cycle.
C1_EvictedAfterOneMissedCycle ==
  [][/\ \A a \in Range(last_update_process_cache) :
          /\ (op' = "parse" /\ ~(ret' /\ local'.cid = client_of(a)))
               => /\ a \in Range(last_update_process_cache')
                  /\ a \notin Range(current_update_process_cache')
                  /\ heap'[a] = heap[a]
          /\ op' = "swap"
               => /\ a \notin Range(last_update_process_cache')
                  /\ a \notin Range(current_update_process_cache')
                  /\ heap'[a] = FreeCell
     /\ \A a \in Range(current_update_process_cache) :
          op' = "swap" => a \in Range(last_update_process_cache') /\ heap'[a] = heap[a]
    ]_vars

\* A swap has freed an entry whose client missed the cycle, while another
\* entry, stored in that cycle, went on to the previous buffer.
C1_Witness ==
  /\ op = "swap"
  /\ local.freed # {}
  /\ last_update_process_cache # <<>>

\* C8: the swap frees every entry of the previous buffer, makes the previous
\* buffer the current buffer as it was, entries untouched, and empties the
\* current buffer.
C8_SwapReplacesPrevious ==
  [][op' = "swap" =>
       /\ \A a \in Range(last_update_process_cache) : heap'[a] = FreeCell
       /\ last_update_process_cache' = current_update_process_cache
       /\ \A a \in Range(current_update_process_cache) : heap'[a] = heap[a]
       /\ current_update_process_cache' = <<>>
       /\ \A a \in Addr : heap[a] = FreeCell => heap'[a] = FreeCell
    ]_vars

\* A swap has freed two unconsumed entries with the current buffer empty.
C8_Witness ==
  /\ op = "swap"
  /\ Cardinality(local.freed) = 2
  /\ last_update_process_cache = <<>>
  /\ \A a \in Addr : heap[a] = FreeCell

\* The last operation was a parser call that returned to its caller.
Returned == op = "parse" /\ proc = "running"

\* The last parser call returned after finding its client in the previous
\* buffer.
ReturnedHit == Returned /\ local.cache_entry # NULL

\* The engine-time fields of the usage record, each with the busy
\* percentage derived from it.
Classes ==
  {[sample |-> "gfx_engine_used", usage |-> "gpu_usage"],
   [sample |-> "dec_engine_used", usage |-> "decode_usage"],
   [sample |-> "enc_engine_used", usage |-> "encode_usage"]}

\* Both samples of class k exist: the one of the last call (c1) and the one
\* of the call that stored the entry it found (c0), taken Elapsed apart.
BothSampled(k) == k.sample \in process_info.valid /\ k.sample \in local.previous.p.valid

PreviousSample(k) == local.previous.p[k.sample]

NewSample(k) == process_info[k.sample]

Elapsed == now - local.previous.at

InRange(k) == PreviousSample(k) <= NewSample(k) /\ NewSample(k) - PreviousSample(k) <= Elapsed

\* pct is an integer nearest to 100 * delta / t.
Nearest(pct, delta, t) ==
  /\ 2 * (pct * t - 100 * delta) <= t
  /\ 2 * (100 * delta - pct * t) <= t

\* C2: when the last call found its client's entry, then for every engine
\* class sampled by both calls with c0 <= c1 and c1 - c0 <= t the usage
\* record holds a busy percentage that is round(100 * (c1 - c0) / t) and
\* lies in 0..100.
C2_BusyPercentage ==
  ReturnedHit =>
    \A k \in Classes :
      (BothSampled(k) /\ InRange(k)) =>
        /\ k.usage \in process_info.valid
        /\ Nearest(process_info[k.usage], NewSample(k) - PreviousSample(k), Elapsed)
        /\ process_info[k.usage] \in 0..100

\* The render counter went from 1 to 2 in 2 time units: 50 percent.
C2_Witness ==
  /\ ReturnedHit
  /\ BothSampled([sample |-> "gfx_engine_used", usage |-> "gpu_usage"])
  /\ NewSample([sample |-> "gfx_engine_used"]) - PreviousSample([sample |-> "gfx_engine_used"]) = 1
  /\ Elapsed = 2
  /\ "gpu_usage" \in process_info.valid
  /\ process_info.gpu_usage = 50

\* C3: when the last call found its client's entry, it returned success, an
\* engine class whose counter regressed or advanced by more than the elapsed
\* time has no busy percentage, and every class whose guard holds has one.
C3_NoPercentageOnAnomaly ==
  ReturnedHit =>
    /\ ret = TRUE
    /\ \A k \in Classes :
         /\ (BothSampled(k) /\ ~InRange(k)) => k.usage \notin process_info.valid
         /\ (BothSampled(k) /\ InRange(k)) => k.usage \in process_info.valid

\* The render counter regressed, or advanced by more than the elapsed time,
\* while the decode percentage was derived.
C3_Witness ==
  /\ ReturnedHit
  /\ ret
  /\ BothSampled([sample |-> "gfx_engine_used"])
  /\ NewSample([sample |-> "gfx_engine_used"]) < PreviousSample([sample |-> "gfx_engine_used"])
  /\ "gpu_usage" \notin process_info.valid
  /\ "decode_usage" \in process_info.valid
  /\ Elapsed > 0

\* C6: an entry the parser matches was stored for the same client id and
\* the same pid as the call that matches it.
C6_KeyedByClientAndPid ==
  ReturnedHit =>
    /\ local.found.client_id.client_id = local.cid
    /\ local.found.client_id.pid = process_info.pid

\* C7: the current buffer holds at most one entry per client id.
C7_OneEntryPerClient ==
  \A i, j \in 1..Len(current_update_process_cache) :
    i # j => client_of(current_update_process_cache[i])
               # client_of(current_update_process_cache[j])

-----------------------------------------------------------------------------
(* Properties of the line loop, stated on the text of the record *)

\* The lines of file that are "key: value" pairs with the key `key`.
LinesOf(file, key) ==
  {i \in 1..Len(file) : extract_drm_fdinfo_key_value(file[i]) /\ file[i].key = key}

\* The record has a device-identity line of another device.
HasMismatch(file) == \E i \in LinesOf(file, drm_pdev) : file[i].val # pdev

\* val is an unsigned decimal integer: digits, after an optional '+'.
AllDigits(s) == s # <<>> /\ \A i \in 1..Len(s) : s[i] \in Digits

UnsignedDecimal(val) ==
  AllDigits(IF val # <<>> /\ val[1] = "+" THEN Tail(val) ELSE val)

\* The record has a client-id line that is an unsigned decimal integer.
CarriesClientId(file) ==
  \E i \in LinesOf(file, drm_client_id) : UnsignedDecimal(file[i].val)

\* val is "<integer> ns".
WellFormedTime(val) ==
  /\ Len(val) > 3
  /\ UnsignedDecimal(SubSeq(val, 1, Len(val) - 3))
  /\ SubSeq(val, Len(val) - 2, Len(val)) = <<" ", "n", "s">>

RECURSIVE Decimal(_)
Decimal(s) ==
  IF s = <<>> THEN 0
  ELSE IF s[1] = "+" THEN Decimal(Tail(s))
  ELSE 10 * Decimal(SubSeq(s, 1, Len(s) - 1)) + DigitVal(s[Len(s)])

TimeOf(val) == Decimal(SubSeq(val, 1, Len(val) - 3))

CachesUnchanged ==
  UNCHANGED <<last_update_process_cache, current_update_process_cache, heap>>

\* C4: a call on a record with a device-identity line of another device
\* returns failure and changes neither buffer nor any entry, wherever the
\* line stands in the record.
C4_MismatchRejected ==
  [][(op' = "parse" /\ HasMismatch(fdinfo_file'))
       => (proc' = "running" /\ ret' = FALSE /\ CachesUnchanged)]_vars

\* A call with a non-empty cache was rejected on a record whose mismatching
\* line comes last, after a valid client id and a well-formed engine time.
C4_Witness ==
  /\ Returned
  /\ ~ret
  /\ Len(fdinfo_file) = 3
  /\ CarriesClientId(fdinfo_file)
  /\ fdinfo_file[3].key = drm_pdev /\ fdinfo_file[3].val # pdev
  /\ fdinfo_file[2].key = drm_intel_render /\ WellFormedTime(fdinfo_file[2].val)
  /\ last_update_process_cache # <<>>

\* C5: a call on a record with no client-id line that is an unsigned
\* decimal integer returns failure and changes neither buffer nor any entry.
C5_NoClientIdRejected ==
  [][(op' = "parse" /\ ~CarriesClientId(fdinfo_file'))
       => (proc' = "running" /\ ret' = FALSE /\ CachesUnchanged)]_vars

\* A call with a non-empty cache was rejected on a record of this device
\* with a well-formed engine time and a client-id line that is no integer.
C5_Witness ==
  /\ Returned
  /\ ~ret
  /\ ~HasMismatch(fdinfo_file)
  /\ LinesOf(fdinfo_file, drm_pdev) # {}
  /\ LinesOf(fdinfo_file, drm_client_id) # {}
  /\ ~CarriesClientId(fdinfo_file)
  /\ \E i \in LinesOf(fdinfo_file, drm_intel_render) : WellFormedTime(fdinfo_file[i].val)
  /\ last_update_process_cache # <<>>

\* The engine key whose time the parser writes to each engine-time field.
EngineFields ==
  {[field |-> "gfx_engine_used", key |-> drm_intel_render],
   [field |-> "enc_engine_used", key |-> drm_intel_video],
   [field |-> "dec_engine_used", key |-> drm_intel_video_enhance]}

WellFormedLines(file, key) == {i \in LinesOf(file, key) : WellFormedTime(file[i].val)}

Last(S) == CHOOSE i \in S : \A j \in S : j <= i

\* The record is of this device: it has a device-identity line, and none of
\* another device.
OfThisDevice(file) == LinesOf(file, drm_pdev) # {} /\ ~HasMismatch(file)

\* C10: a call that returns on a record of this device with a client id
\* returns success, and an engine-time field of the usage record is set if
\* and only if the record has a well-formed line of its engine key, to the
\* time of the last such line; a malformed line sets nothing.
C10_ExactlyPresentFields ==
  (Returned /\ OfThisDevice(fdinfo_file) /\ CarriesClientId(fdinfo_file)) =>
    /\ ret = TRUE
    /\ \A f \in EngineFields :
         LET lines == WellFormedLines(fdinfo_file, f.key)
         IN  /\ f.field \in process_info.valid <=> lines # {}
             /\ lines # {} => process_info[f.field] = TimeOf(fdinfo_file[Last(lines)].val)

\* A call succeeded on a record of this device with a client id and a
\* malformed render line: no field is set.
C10_Witness ==
  /\ Returned
  /\ ret
  /\ Len(fdinfo_file) = 3
  /\ OfThisDevice(fdinfo_file)
  /\ CarriesClientId(fdinfo_file)
  /\ fdinfo_file[3].key = drm_intel_render /\ ~WellFormedTime(fdinfo_file[3].val)
  /\ process_info.valid = {}
  /\ current_update_process_cache # <<>>

\* The engine key whose time goes to each engine-time field by the stated
\* mapping: render to graphics, video to decode, video-enhance to encode.
StatedFields ==
  {[field |-> "gfx_engine_used", key |-> drm_intel_render],
   [field |-> "dec_engine_used", key |-> drm_intel_video],
   [field |-> "enc_engine_used", key |-> drm_intel_video_enhance]}

\* C11: a call that returns success on a record of this device sets the
\* graphics field from the render time, the decode field from the video
\* time and the encode field from the video-enhance time, and nothing from
\* the copy time: each field is set if and only if the record has a
\* well-formed line of its class, to the time of the last such line.
C11_StatedEngineMapping ==
  (Returned /\ ret /\ OfThisDevice(fdinfo_file)) =>
    \A f \in StatedFields :
      LET lines == WellFormedLines(fdinfo_file, f.key)
      IN  /\ f.field \in process_info.valid <=> lines # {}
          /\ lines # {} => process_info[f.field] = TimeOf(fdinfo_file[Last(lines)].val)


\* The times of the well-formed lines that count in the record: for each of
\* the render, video and video-enhance classes, that of its last line.
TimesRead(file) ==
  {TimeOf(file[Last(WellFormedLines(file, key))].val) :
     key \in {k \in {drm_intel_render, drm_intel_video, drm_intel_video_enhance} :
                WellFormedLines(file, k) # {}}}

EngineTimeFields == {"gfx_engine_used", "enc_engine_used", "dec_engine_used"}

UsageFields == {"gpu_usage", "encode_usage", "decode_usage"}

\* C12: a call whose allocation of a new entry fails returns success, has
\* changed neither buffer nor any entry, and leaves in the usage record the
\* engine times read from the record (the render time in the graphics
\* field) and no busy percentage.
C12_AllocationFailure ==
  [][(op' = "parse" /\ local'.calloc_failed) =>
       /\ proc' = "running"
       /\ ret' = TRUE
       /\ CachesUnchanged
       /\ local'.cache_entry = NULL
       /\ HASH_FIND_CLIENT(last_update_process_cache, local'.cid) = NULL
       /\ {process_info'[f] : f \in process_info'.valid \cap EngineTimeFields}
            = TimesRead(fdinfo_file')
       /\ "gfx_engine_used" \in process_info'.valid
            <=> WellFormedLines(fdinfo_file', drm_intel_render) # {}
       /\ process_info'.valid \cap UsageFields = {}
    ]_vars

\* The allocation failed, with free memory left, for a client that is not
\* in the non-empty previous buffer; render and video-enhance times were
\* read.
C12_Witness ==
  /\ Returned
  /\ local.calloc_failed
  /\ ret
  /\ last_update_process_cache # <<>>
  /\ \E a \in Addr : heap[a] = FreeCell
  /\ Cardinality(process_info.valid) = 2
  /\ TimesRead(fdinfo_file) = {2, 3}


-----------------------------------------------------------------------------
(* Properties of the device record *)

\* The dynamic-info field of each sensor attribute: current and maximum GPU
\* clock, current and maximum memory clock.
SensorFields ==
  {[attr |-> "gt_gt_cur_freq_mhz", field |-> "gpu_clock_speed"],
   [attr |-> "gt_max_freq_mhz", field |-> "gpu_clock_speed_max"],
   [attr |-> "mem_cur_freq_mhz", field |-> "mem_clock_speed"],
   [attr |-> "mem_max_freq_mhz", field |-> "mem_clock_speed_max"]}

\* C13: a refresh sets the field of every sensor attribute that is present
\* to the attribute's value, and leaves the field of a missing attribute as
\* it was, valid or not.
C13_EachAttributeItsField ==
  [][op' = "refresh" =>
       \A a \in SensorFields :
         IF sysattr'[a.attr].null
           THEN /\ a.field \in dynamic_info'.valid <=> a.field \in dynamic_info.valid
                /\ dynamic_info'[a.field] = dynamic_info[a.field]
           ELSE /\ a.field \in dynamic_info'.valid
                /\ dynamic_info'[a.field] = Decimal(sysattr'[a.attr].str)
    ]_vars

\* C14: no object has had more releases by shutdown than references taken
\* at enumeration, and when a shutdown has returned every reference taken
\* has been released.
C14_ReleasedExactlyOnce ==
  \A h \in Handle :
    /\ udev_device[h].released <= udev_device[h].acquired
    /\ (op = "shutdown" /\ proc = "running")
         => udev_device[h].released = udev_device[h].acquired

-----------------------------------------------------------------------------
(* Properties of the cache across cycles *)

\* C15: a busy percentage of an engine class in the usage record of a call
\* that returned means that the call found an entry of its client id, that
\* the entry was stored in the cycle right before this one (it has seen one
\* swap) by a call for the same client id, and that the class was sampled
\* by that call and by this one.
C15_OnlyFromPrecedingCycle ==
  Returned =>
    \A k \in Classes :
      k.usage \in process_info.valid =>
        /\ local.cache_entry # NULL
        /\ local.previous.age = 1
        /\ local.previous.cid = local.cid
        /\ k.sample \in local.previous.p.valid
        /\ k.sample \in process_info.valid

\* The decode time of a client was sampled two cycles ago (the entry found
\* still holds that counter, no longer valid), was missing in the cycle
\* before this one and is sampled again: no decode percentage, while the
\* graphics percentage is derived.
C15_Witness ==
  /\ ReturnedHit
  /\ local.found.engine_video > 0
  /\ "engine_video" \notin local.found.valid
  /\ "dec_engine_used" \notin local.previous.p.valid
  /\ "dec_engine_used" \in process_info.valid
  /\ "decode_usage" \notin process_info.valid
  /\ "gpu_usage" \in process_info.valid

\* The cache counter that keeps each engine-time field of the usage record.
Counters ==
  {[field |-> "gfx_engine_used", counter |-> "engine_render"],
   [field |-> "dec_engine_used", counter |-> "engine_video"],
   [field |-> "enc_engine_used", counter |-> "engine_video_enhance"]}

\* Entry a holds exactly the engine times of the usage record p, stamped t.
HoldsSample(a, p, t) ==
  /\ heap[a].last_measurement_tstamp = t
  /\ heap[a].valid = {c.counter : c \in {x \in Counters : x.field \in p.valid}}
  /\ \A c \in Counters : c.field \in p.valid => heap[a][c.counter] = p[c.field]

\* C16: after a call that returned success without an allocation failure,
\* the current buffer has an entry for the client id and pid of the call
\* that holds exactly the engine times of this record, stamped with the
\* time of this call; a call that found no entry sets no busy percentage.
C16_CurrentEntryOfClient ==
  (Returned /\ ret /\ ~local.calloc_failed) =>
    /\ \E a \in Range(current_update_process_cache) :
         /\ heap[a].client_id = [client_id |-> local.cid, pid |-> process_info.pid]
         /\ HoldsSample(a, process_info, now)
    /\ local.cache_entry = NULL => process_info.valid \cap UsageFields = {}

\* The entries that are allocated and not freed.
Allocated == {a \in Addr : heap[a] # FreeCell}

\* s lists each of its entries once.
NoRepeat(s) == \A i, j \in 1..Len(s) : i # j => s[i] # s[j]

\* Every allocated entry is in exactly one buffer, once, and the buffers
\* hold allocated entries only.
InOneBuffer ==
  /\ NoRepeat(last_update_process_cache)
  /\ NoRepeat(current_update_process_cache)
  /\ Range(last_update_process_cache) \cap Range(current_update_process_cache) = {}
  /\ Range(last_update_process_cache) \cup Range(current_update_process_cache) = Allocated

\* C17: in every state every allocated entry is in exactly one of the two
\* buffers; a swap frees allocated entries only, a parser call looks into
\* and stores into allocated entries only, and what it adds to the current
\* buffer was in neither buffer or has left the previous one.
C17_ExactlyOneBuffer ==
  /\ []InOneBuffer
  /\ [][/\ op' = "swap" => local'.freed \subseteq Allocated
        /\ (op' = "parse" /\ local'.cache_entry # NULL)
             => local'.cache_entry \in Allocated
        /\ (op' = "parse" /\ local'.added # NULL)
             => /\ heap'[local'.added] # FreeCell
                /\ local'.added \notin Range(current_update_process_cache)
                /\ local'.added \notin Range(last_update_process_cache')
    ]_vars

\* Both buffers hold an entry, the one of the current buffer having been
\* taken over from the previous buffer by the last call.
C17_Witness ==
  /\ ReturnedHit
  /\ local.added = local.cache_entry
  /\ last_update_process_cache # <<>>
  /\ current_update_process_cache # <<>>
  /\ Cardinality(Allocated) = 2

-----------------------------------------------------------------------------
(* Properties of the rejected and of the unidentified record *)

\* C18 as stated: a call changes a buffer or an entry only if its record
\* has a device-identity line with this device's bus address.
C18_OnlyWithIdentityLine ==
  [][(op' = "parse" /\ ~CachesUnchanged)
       => \E i \in LinesOf(fdinfo_file', drm_pdev) : fdinfo_file'[i].val = pdev]_vars

\* C18, amended: a call changes a buffer or an entry only if its record has
\* no device-identity line of another device and carries a client id; a
\* record with no device-identity line at all is taken as one of this
\* device: with a client id the call returns success and, unless the
\* allocation fails, updates the cache.
C18_OnlyWithoutMismatch ==
  [][/\ (op' = "parse" /\ ~CachesUnchanged)
          => (~HasMismatch(fdinfo_file') /\ CarriesClientId(fdinfo_file'))
     /\ (/\ op' = "parse"
         /\ proc' = "running"
         /\ LinesOf(fdinfo_file', drm_pdev) = {}
         /\ CarriesClientId(fdinfo_file'))
          => /\ ret' = TRUE
             /\ ~local'.calloc_failed => ~CachesUnchanged
    ]_vars

\* A record with no device-identity line has consumed an entry of the
\* previous buffer and put it into the current one.
C18_Witness ==
  /\ ReturnedHit
  /\ ret
  /\ LinesOf(fdinfo_file, drm_pdev) = {}
  /\ local.added = local.cache_entry
  /\ local.added \in Range(current_update_process_cache)

-----------------------------------------------------------------------------
(* Properties of the elapsed time and of the failed call *)

\* C19: no call is killed by a division by an elapsed time of zero, and a
\* call that returns a busy percentage has derived it over an elapsed time
\* that is strictly positive.
C19_ElapsedPositive ==
  /\ proc # "trapped"
  /\ ReturnedHit =>
       \A k \in Classes : k.usage \in process_info.valid => Elapsed > 0

\* The lines the loop reads before it returns: those before the first
\* device-identity line of another device, or all of them.
ReadBeforeReturn(file) ==
  LET mismatches == {i \in LinesOf(file, drm_pdev) : file[i].val # pdev}
  IN  IF mismatches = {} THEN file
      ELSE SubSeq(file, 1, (CHOOSE i \in mismatches : \A j \in mismatches : i <= j) - 1)

\* C20 as stated: a call that returned failure has left the usage record as
\* the caller handed it in, nothing valid.
C20_FailureLeavesRecord ==
  (Returned /\ ~ret) => process_info = fresh_gpu_process(process_info.pid)

\* C20, amended: a call that returned failure has set no busy percentage,
\* and has set exactly the engine-time fields whose well-formed lines it
\* read before it returned, each to the time of the last such line.
C20_FailureKeepsTimesRead ==
  (Returned /\ ~ret) =>
    /\ process_info.valid \cap UsageFields = {}
    /\ \A f \in EngineFields :
         LET lines == WellFormedLines(ReadBeforeReturn(fdinfo_file), f.key)
         IN  /\ f.field \in process_info.valid <=> lines # {}
             /\ lines # {} =>
                  process_info[f.field] = TimeOf(ReadBeforeReturn(fdinfo_file)[Last(lines)].val)

\* A call was rejected for a device-identity line of another device that
\* came after a render time, which stays in the usage record, and before a
\* video time, which is not read.
C20_Witness ==
  /\ Returned
  /\ ~ret
  /\ Len(fdinfo_file) = 3
  /\ fdinfo_file[1].key = drm_intel_render /\ WellFormedTime(fdinfo_file[1].val)
  /\ fdinfo_file[2].key = drm_pdev /\ fdinfo_file[2].val # pdev
  /\ fdinfo_file[3].key = drm_intel_video /\ WellFormedTime(fdinfo_file[3].val)
  /\ process_info.valid = {"gfx_engine_used"}

-----------------------------------------------------------------------------
(* The end-to-end scenario *)

\* Client 7, stored with a render counter of 1,000,000 ns, is found again
\* 500 ms later with a render counter of 1,050,000 ns.
Client7Reappears ==
  /\ ReturnedHit
  /\ local.cid = 7
  /\ "gfx_engine_used" \in local.previous.p.valid
  /\ local.previous.p.gfx_engine_used = 1000000
  /\ "gfx_engine_used" \in process_info.valid
  /\ process_info.gfx_engine_used = 1050000
  /\ Elapsed = HalfSecond

\* C9 as stated: in the scenario the busy percentage is 10.
C9_TenPercent ==
  Client7Reappears => ("gpu_usage" \in process_info.valid /\ process_info.gpu_usage = 10)

\* C9, amended: in the scenario the busy percentage is 0, the rounding of
\* 100 * 50,000 / 500,000,000.
C9_ZeroPercent ==
  Client7Reappears => ("gpu_usage" \in process_info.valid /\ process_info.gpu_usage = 0)

\* The scenario has happened, the first sighting having derived nothing.
C9_Witness ==
  /\ Client7Reappears
  /\ calls = 2
  /\ last_update_process_cache = <<>>
  /\ Len(current_update_process_cache) = 1

====
